---------------------------- MODULE Spec2Model ----------------------------
(***************************************************************************)
(* The voice-call screen of src/components/VoiceCall.tsx as a state        *)
(* machine: the React state of the mounted component, its refs, and, for   *)
(* every invocation of handleStartCall (an "attempt"), the values its      *)
(* closures captured and the resources it created.  The browser and the    *)
(* remote channel are the environment: they deliver their events at any    *)
(* time.  The awaits of handleStartCall (getUserMedia, resume, connect)    *)
(* are points where other handlers run; the await of onmessage is taken    *)
(* up with the specifications at the end of the module.                    *)
(***************************************************************************)
EXTENDS Integers, Sequences, FiniteSets, TLC

\* ------------------------------------------------------------------ bounds
MaxAttempts == 2      \* invocations of handleStartCall
MaxClock    == 2      \* ticks of one output context's clock
MaxMsgs     == 3      \* inbound messages over all channels
MaxFrames   == 2      \* firings of capture callbacks
MaxDuration == 1      \* ticks of the duration timers
MaxDur      == 2      \* longest chunk, in clock ticks

Attempts == 1..MaxAttempts

VARIABLES
  mounted,          \* the VoiceCall component is mounted (App.tsx viewMode = 'voice')
  permissionState,  \* useState, line 46
  errorMessage,     \* useState, line 47
  isMuted,          \* useState, line 50
  isModelSpeaking,  \* useState, line 51
  duration,         \* useState, line 52
  waveformData,     \* useState, line 53: the bars, in hundredths
  audioContextsRef, \* useRef, line 55: 0 (null) or the attempt whose contexts it holds
  sessionRef,       \* useRef, line 56: 0 (null) or the attempt whose session it holds
  sourcesRef,       \* useRef, line 57: the set of scheduled source nodes
  nextStartTimeRef, \* useRef, line 58
  timerRef,         \* useRef, line 59: 0 (null) or the interval it holds
  att,              \* number of handleStartCall invocations so far
  pc,               \* per attempt: where handleStartCall stands
  capMuted,         \* per attempt: isMuted as captured by the closures of that invocation
  capPerm,          \* per attempt: permissionState as captured by those closures
  stream,           \* per attempt: the MediaStream of getUserMedia is live
  inCtx,            \* per attempt: state of inputCtx
  outCtx,           \* per attempt: state of outputCtx
  clock,            \* per attempt: outputCtx.currentTime
  chan,             \* per attempt: state of the live channel
  capture,          \* per attempt: the script processor is wired
  timers,           \* the intervals that are running (named by the attempt that set them)
  playing,          \* ids of the source nodes the audio graph still has scheduled
  stopped,          \* ids of stopped source nodes whose 'ended' event is still to fire
  pending,          \* onmessage invocations suspended at `await decodeAudioData`
  thenQ,            \* per attempt: frames waiting on sessionPromise.then
  delivered,        \* frames handed to sendRealtimeInput, in order
  nMsgs, nFrames, nSrc,   \* counters of inputs drawn so far
  log,              \* observation: the chunks handed to source.start, in order, since
                    \* the last flush or new output context
  cut,              \* observation: the cursor the last flush discarded, -1 before any
  sessFresh,        \* observation: the current output context has received no chunk yet
  ended,            \* observation: how the component was unmounted: "no", "hangup", "remote"
  pure,             \* the pure helper under study (encode/decode, the float to int16
                    \* store), with its input and result; "none" within a call
  toggled,          \* observation: the mute flag changed since the last capture callback
  last              \* observation: the handler that ran last, with what it read and did

vars == << mounted, permissionState, errorMessage, isMuted, isModelSpeaking, duration,
           waveformData,
           audioContextsRef, sessionRef, sourcesRef, nextStartTimeRef, timerRef,
           att, pc, capMuted, capPerm, stream, inCtx, outCtx, clock, chan, capture,
           timers, playing, stopped, pending, thenQ, delivered, nMsgs, nFrames, nSrc,
           log, cut, sessFresh, ended, pure, toggled, last >>

reactState == << permissionState, errorMessage, isMuted, isModelSpeaking, duration >>
refs       == << audioContextsRef, sessionRef, sourcesRef, nextStartTimeRef, timerRef >>
attemptSt  == << att, pc, capMuted, capPerm, stream, inCtx, outCtx, chan, capture >>
audioSt    == << playing, stopped, pending >>
outbound   == << thenQ, delivered, nFrames >>
schedObs   == << log, cut >>

Max(a, b) == IF a >= b THEN a ELSE b

\* The waveform: line 53 makes WaveLen bars of WaveFill.  Bar values are kept
\* in hundredths, so that the factor 0.9 of line 197 stays in the integers.
WaveLen == 40
WaveFill == 2
Hundredths(x) == x * 100

\* The handler that ran last and the attempt it belongs to.
Ev(o) == [op |-> o, a |-> 0]
EvA(o, n) == [op |-> o, a |-> n]

\* The session state of the specification, read off the component.
SessionState ==
  IF ~mounted THEN "Idle"
  ELSE CASE permissionState = "pending"    -> "Idle"
         [] permissionState = "requesting" -> "RequestingPermission"
         [] permissionState = "connecting" -> "Connecting"
         [] permissionState = "granted"    -> "Active"
         [] permissionState = "denied"     -> "Denied"
         [] OTHER                          -> "Error"

\* A state setter of an unmounted component changes nothing.
SetState(cur, new) == IF mounted THEN new ELSE cur

ComponentInit ==
  /\ mounted = TRUE
  /\ permissionState = "pending"
  /\ errorMessage = ""
  /\ isMuted = FALSE
  /\ isModelSpeaking = FALSE
  /\ duration = 0
  /\ waveformData = [i \in 1..WaveLen |-> Hundredths(WaveFill)]
  /\ audioContextsRef = 0
  /\ sessionRef = 0
  /\ sourcesRef = {}
  /\ nextStartTimeRef = 0
  /\ timerRef = 0
  /\ att = 0
  /\ pc = [a \in Attempts |-> "idle"]
  /\ capMuted = [a \in Attempts |-> FALSE]
  /\ capPerm = [a \in Attempts |-> "pending"]
  /\ stream = [a \in Attempts |-> FALSE]
  /\ inCtx = [a \in Attempts |-> "none"]
  /\ outCtx = [a \in Attempts |-> "none"]
  /\ clock = [a \in Attempts |-> 0]
  /\ chan = [a \in Attempts |-> "none"]
  /\ capture = [a \in Attempts |-> FALSE]
  /\ timers = {}
  /\ playing = {}
  /\ stopped = {}
  /\ pending = << >>
  /\ thenQ = [a \in Attempts |-> << >>]
  /\ delivered = << >>
  /\ nMsgs = 0
  /\ nFrames = 0
  /\ nSrc = 0
  /\ log = << >>
  /\ cut = -1
  /\ sessFresh = TRUE
  /\ ended = "no"
  /\ toggled = FALSE
  /\ last = Ev("none")

\* The component as constructed; no helper is under study.
Init == ComponentInit /\ pure = [fn |-> "none"]

\* ------------------------------------------------------- handleStartCall
\* The "Connect Now" button: enabled unless requesting or connecting, shown
\* unless granted.  Lines 67-76, up to the await of getUserMedia.
\* The button without its disabled attribute.
ConnectNeverDisabled == TRUE

\* The "Connect Now" button is rendered unless the state is granted (line 203)
\* and disabled while requesting or connecting (line 247).
ConnectEnabled == permissionState \in {"pending", "denied", "error"}

StartCall ==
  /\ mounted
  /\ ConnectEnabled
  /\ att < MaxAttempts
  /\ att' = att + 1
  /\ pc' = [pc EXCEPT ![att + 1] = "mic"]
  /\ capMuted' = [capMuted EXCEPT ![att + 1] = isMuted]
  /\ capPerm' = [capPerm EXCEPT ![att + 1] = permissionState]
  /\ permissionState' = "requesting"
  /\ errorMessage' = ""
  /\ last' = EvA("start", att + 1)
  /\ UNCHANGED << pure, waveformData, ended, mounted, isMuted, isModelSpeaking, duration, refs, stream, inCtx,
                  outCtx, clock, chan, capture, timers, audioSt, outbound, nMsgs, nSrc,
                  schedObs, sessFresh, toggled >>

\* Lines 77-82 had the audio contexts of lines 88-89 been created before line 76.
MicDeniedContextsFirst(a) ==
  /\ pc[a] = "mic"
  /\ pc' = [pc EXCEPT ![a] = "done"]
  /\ permissionState' = IF mounted THEN "denied" ELSE permissionState
  /\ errorMessage' = IF mounted THEN "Mic access nahi mila. Browser settings check karein."
                                ELSE errorMessage
  /\ inCtx' = [inCtx EXCEPT ![a] = "running"]
  /\ outCtx' = [outCtx EXCEPT ![a] = "running"]
  /\ last' = EvA("denied", a)
  /\ UNCHANGED << pure, waveformData, ended, mounted, isMuted, isModelSpeaking, duration, refs, att, capMuted,
                  capPerm, stream, clock, chan, capture, timers, audioSt,
                  outbound, nMsgs, nSrc, schedObs, sessFresh, toggled >>

\* getUserMedia rejects: lines 77-82.
MicDenied(a) ==
  /\ pc[a] = "mic"
  /\ pc' = [pc EXCEPT ![a] = "done"]
  /\ permissionState' = SetState(permissionState, "denied")
  /\ errorMessage' = SetState(errorMessage, "Mic access nahi mila. Browser settings check karein.")
  /\ last' = EvA("denied", a)
  /\ UNCHANGED << pure, waveformData, ended, mounted, isMuted, isModelSpeaking, duration, refs, att, capMuted,
                  capPerm, stream, inCtx, outCtx, clock, chan, capture, timers, audioSt,
                  outbound, nMsgs, nSrc, schedObs, sessFresh, toggled >>

\* getUserMedia resolves: lines 85-93, up to the awaits of resume().
MicGranted(a) ==
  /\ pc[a] = "mic"
  /\ pc' = [pc EXCEPT ![a] = "resume"]
  /\ stream' = [stream EXCEPT ![a] = TRUE]
  /\ permissionState' = SetState(permissionState, "connecting")
  /\ inCtx' = [inCtx EXCEPT ![a] = "running"]
  /\ outCtx' = [outCtx EXCEPT ![a] = "running"]
  /\ last' = EvA("granted", a)
  /\ UNCHANGED << pure, waveformData, ended, mounted, errorMessage, isMuted, isModelSpeaking, duration, refs, att,
                  capMuted, capPerm, clock, chan, capture, timers, audioSt, outbound,
                  nMsgs, nSrc, schedObs, sessFresh, toggled >>

\* Both resume() promises resolve: lines 95-174, up to `await sessionPromise`.
ContextsResumed(a) ==
  /\ pc[a] = "resume"
  /\ pc' = [pc EXCEPT ![a] = "connect"]
  /\ audioContextsRef' = a
  /\ chan' = [chan EXCEPT ![a] = "opening"]
  /\ sessFresh' = TRUE
  /\ log' = << >>
  /\ last' = EvA("connect", a)
  /\ UNCHANGED << pure, waveformData, ended, mounted, reactState, sessionRef, sourcesRef, nextStartTimeRef,
                  timerRef, att, capMuted, capPerm, stream, inCtx, outCtx, clock,
                  capture, timers, audioSt, outbound, nMsgs, nSrc, cut,
                  toggled >>

\* A handler that records no diagnostic.
NoMessage == ""

\* The diagnostics of line 163 and line 178.
ApiIssueMessage == "API Issue Detected."
StartupFailedMessage == "Connection failed at startup."

\* The catch of lines 175-180: something between line 88 and line 174 threw
\* or rejected (a resume(), the client constructor, connect).
StartupFailed(a) ==
  /\ pc[a] \in {"resume", "connect"}
  /\ chan[a] \in {"none", "opening"}
  /\ pc' = [pc EXCEPT ![a] = "done"]
  /\ chan' = [chan EXCEPT ![a] = IF chan[a] = "opening" THEN "closed" ELSE "none"]
  /\ permissionState' = SetState(permissionState, "error")
  /\ errorMessage' = SetState(errorMessage, StartupFailedMessage)
  /\ last' = EvA("startupFailed", a)
  /\ UNCHANGED << pure, waveformData, ended, mounted, isMuted, isModelSpeaking, duration, refs, att, capMuted,
                  capPerm, stream, inCtx, outCtx, clock, capture, timers, audioSt,
                  outbound, nMsgs, nSrc, schedObs, sessFresh, toggled >>

\* sessionPromise resolves: line 174 and the callbacks queued on it by line 117.
SessionResolved(a) ==
  /\ pc[a] = "connect"
  /\ chan[a] = "open"
  /\ pc' = [pc EXCEPT ![a] = "done"]
  /\ sessionRef' = a
  /\ delivered' = delivered \o thenQ[a]
  /\ thenQ' = [thenQ EXCEPT ![a] = << >>]
  /\ last' = EvA("resolved", a)
  /\ UNCHANGED << pure, waveformData, ended, mounted, reactState, audioContextsRef, sourcesRef, nextStartTimeRef,
                  timerRef, att, capMuted, capPerm, stream, inCtx, outCtx, clock, chan,
                  capture, timers, audioSt, nFrames, nMsgs, nSrc, schedObs, sessFresh,
                  toggled >>

\* ------------------------------------------------------ channel callbacks
\* onopen, lines 105-123.  createMediaStreamSource needs a context that is
\* not closed.
OnOpen(a) ==
  /\ chan[a] = "opening"
  /\ chan' = [chan EXCEPT ![a] = "open"]
  /\ permissionState' = SetState(permissionState, "granted")
  /\ timerRef' = a
  /\ timers' = timers \cup {a}
  /\ capture' = [capture EXCEPT ![a] = (inCtx[a] = "running")]
  /\ last' = EvA("open", a)
  /\ UNCHANGED << pure, waveformData, ended, mounted, errorMessage, isMuted, isModelSpeaking, duration,
                  audioContextsRef, sessionRef, sourcesRef, nextStartTimeRef, att, pc,
                  capMuted, capPerm, stream, inCtx, outCtx, clock, audioSt, outbound,
                  nMsgs, nSrc, schedObs, sessFresh, toggled >>

\* onerror, lines 160-165.
OnError(a) ==
  /\ chan[a] \in {"opening", "open"}
  /\ chan' = [chan EXCEPT ![a] = "errored"]
  /\ permissionState' = SetState(permissionState, "error")
  /\ errorMessage' = SetState(errorMessage, ApiIssueMessage)
  /\ last' = EvA("error", a)
  /\ UNCHANGED << pure, waveformData, ended, mounted, isMuted, isModelSpeaking, duration, refs, att, pc, capMuted,
                  capPerm, stream, inCtx, outCtx, clock, capture, timers, audioSt,
                  outbound, nMsgs, nSrc, schedObs, sessFresh, toggled >>

\* The unmount cleanup, lines 183-192, as the values after it.
CleanChan(c) == IF sessionRef # 0 THEN [c EXCEPT ![sessionRef] = "closed"] ELSE c
CleanIn     == IF audioContextsRef # 0
               THEN [inCtx EXCEPT ![audioContextsRef] = "closed"] ELSE inCtx
\* Line 188 without the null guard of line 186, taken as closing whatever is there.
CleanOutUnguarded == [a \in Attempts |-> "closed"]
CleanOut    == IF audioContextsRef # 0
               THEN [outCtx EXCEPT ![audioContextsRef] = "closed"] ELSE outCtx
CleanTimers == IF timerRef # 0 THEN timers \ {timerRef} ELSE timers
\* Closing an output context silences the nodes scheduled on it.
CleanPlaying == {s \in playing : \A r \in sourcesRef : r.id = s => r.ctx # audioContextsRef}

\* The calls the cleanup makes in the state it runs in, in the order of lines
\* 185, 187, 188 and 190.
CleanupSteps ==
  (IF sessionRef # 0 THEN << "channel" >> ELSE << >>)
    \o (IF audioContextsRef # 0 THEN << "input", "output" >> ELSE << >>)
    \o (IF timerRef # 0 THEN << "timer" >> ELSE << >>)

\* App.tsx line 108: onClose sets viewMode to 'chat', which unmounts the
\* component and runs the cleanup.  `c` is the channel state to clean from.
Unmount(c) ==
  /\ mounted' = FALSE
  /\ chan' = CleanChan(c)
  /\ inCtx' = CleanIn
  /\ outCtx' = CleanOut
  /\ timers' = CleanTimers
  /\ playing' = CleanPlaying

\* onclose, lines 150-159: the test reads the permissionState its closure captured.
OnClose(a) ==
  /\ chan[a] \in {"opening", "open", "errored"}
  /\ last' = EvA("close", a)
  /\ ended' = IF capPerm[a] # "connecting" /\ mounted THEN "remote" ELSE ended
  /\ IF capPerm[a] = "connecting"
     THEN /\ chan' = [chan EXCEPT ![a] = "closed"]
          /\ permissionState' = SetState(permissionState, "error")
          /\ errorMessage' = SetState(errorMessage, "Server connection rejected.")
          /\ UNCHANGED << mounted, inCtx, outCtx, timers, playing >>
     ELSE IF mounted
          THEN /\ Unmount([chan EXCEPT ![a] = "closed"])
               /\ UNCHANGED << permissionState, errorMessage >>
          ELSE /\ chan' = [chan EXCEPT ![a] = "closed"]
               /\ UNCHANGED << mounted, permissionState, errorMessage, inCtx, outCtx,
                               timers, playing >>
  /\ UNCHANGED << pure, waveformData, isMuted, isModelSpeaking, duration, refs, att, pc, capMuted, capPerm,
                  stream, clock, capture, stopped, pending, outbound, nMsgs, nSrc,
                  schedObs, sessFresh, toggled >>

\* ---------------------------------------------------------- user actions
\* The hang-up button (line 299), "Go Back" (line 257) and the header toggle
\* all end in onClose / unmount.
HangUp ==
  /\ mounted
  /\ Unmount(chan)
  /\ ended' = "hangup"
  /\ last' = Ev("hangup")
  /\ UNCHANGED << pure, waveformData, reactState, refs, att, pc, capMuted, capPerm, stream, clock, capture,
                  stopped, pending, outbound, nMsgs, nSrc, schedObs, sessFresh, toggled >>

\* The mute button, line 296, shown on the active screen only.
ToggleMute ==
  /\ mounted
  /\ permissionState = "granted"
  /\ isMuted' = ~isMuted
  /\ toggled' = TRUE
  /\ last' = Ev("toggle")
  /\ UNCHANGED << pure, waveformData, ended, mounted, permissionState, errorMessage, isModelSpeaking, duration,
                  refs, attemptSt, clock, timers, audioSt, outbound, nMsgs, nSrc,
                  schedObs, sessFresh >>

\* ------------------------------------------------------- capture pipeline
\* The mute test of line 113 reads the isMuted its closure captured.
CaptureGate(a) == capMuted[a]

\* The frame a capture callback encodes, numbered, with the mute flag of the
\* component at that firing.
Frame == [n |-> nFrames + 1, muted |-> isMuted]

\* scriptProcessor.onaudioprocess, lines 112-120.
CaptureFire(a) ==
  /\ capture[a]
  /\ inCtx[a] = "running"
  /\ nFrames < MaxFrames
  /\ nFrames' = nFrames + 1
  /\ toggled' = FALSE
  /\ last' = EvA("capture", a)
  /\ IF CaptureGate(a)
     THEN UNCHANGED << thenQ, delivered >>
     ELSE IF pc[a] = "done"
          THEN /\ delivered' = Append(delivered, Frame)
               /\ UNCHANGED thenQ
          ELSE /\ thenQ' = [thenQ EXCEPT ![a] = Append(@, Frame)]
               /\ UNCHANGED delivered
  /\ UNCHANGED << pure, waveformData, ended, mounted, reactState, refs, attemptSt, clock, timers, audioSt, nMsgs,
                  nSrc, schedObs, sessFresh >>

\* The interval of line 108.
TimerTick(t) ==
  /\ t \in timers
  /\ duration < MaxDuration
  /\ mounted
  /\ duration' = duration + 1
  /\ last' = EvA("tick", t)
  /\ UNCHANGED << pure, waveformData, ended, mounted, permissionState, errorMessage, isMuted, isModelSpeaking,
                  refs, attemptSt, clock, timers, audioSt, outbound, nMsgs, nSrc,
                  schedObs, sessFresh, toggled >>

\* The floor of line 197.
DecayFloor == 4

\* Line 197: Math.max(4, v * 0.9), rounded down to the hundredth.
DecayBar(v) == Max(Hundredths(DecayFloor), (v * 9) \div 10)

\* The interval of lines 194-201, which runs while isModelSpeaking is false.
IdleDecay ==
  /\ mounted
  /\ ~isModelSpeaking
  /\ waveformData' = [i \in DOMAIN waveformData |-> DecayBar(waveformData[i])]
  /\ last' = Ev("decay")
  /\ UNCHANGED << pure, ended, mounted, permissionState, errorMessage, isMuted, isModelSpeaking,
                  duration, refs, attemptSt, clock, timers, audioSt, outbound, nMsgs, nSrc,
                  schedObs, sessFresh, toggled >>

\* ----------------------------------------------------- playback scheduler
\* An inbound message carries a chunk, the interrupted flag, or both.  A chunk
\* is well-formed with a length in clock ticks, or malformed: decode (line 26)
\* or decodeAudioData (line 35) throws on it.
Chunks == {[ok |-> TRUE, len |-> d] : d \in 1..MaxDur} \cup {[ok |-> FALSE, len |-> 0]}

\* Line 129 without the max: the cursor follows the clock.
CursorAtReceiveClockOnly(cur, now) == now

\* Line 129.
CursorAtReceive(cur, now) == Max(cur, now)

\* Line 138: the time handed to source.start.
StartTime(cur) == cur

\* Line 139 without the advance, and with `=` for `+=`.
CursorAfterStartNoAdvance(cur, len) == cur
CursorAfterStartAssign(cur, len) == len

\* Line 139.
CursorAfterStart(cur, len) == cur + len

\* Lines 145 and 146 left out.
FlushedSourcesKept(S) == S
FlushedCursorKept == nextStartTimeRef

\* Line 145 and line 146.
FlushedSources(S) == {}
FlushedCursor == 0

Ids(S) == {r.id : r \in S}

\* The flush of lines 144-147 applied to the source set S: every node of S is
\* stopped (a stopped node still fires 'ended'), the set is cleared, the cursor
\* reset.  Handlers suspended at line 130 stay suspended.
Flush(S) ==
  /\ sourcesRef' = FlushedSources(S)
  /\ playing' = playing \ Ids(S \ FlushedSources(S))
  /\ stopped' = stopped \cup (playing \cap Ids(S \ FlushedSources(S)))
  /\ nextStartTimeRef' = FlushedCursor
  /\ isModelSpeaking' = SetState(isModelSpeaking, FALSE)
  /\ log' = << >>
  /\ cut' = nextStartTimeRef

\* onmessage with a chunk, lines 124-130, up to `await decodeAudioData`.
OnChunk(a, c, intr) ==
  /\ chan[a] = "open"
  /\ audioContextsRef # 0
  /\ nMsgs < MaxMsgs
  /\ nMsgs' = nMsgs + 1
  /\ isModelSpeaking' = SetState(isModelSpeaking, TRUE)
  /\ nextStartTimeRef' = CursorAtReceive(nextStartTimeRef, clock[audioContextsRef])
  /\ pending' = Append(pending,
                  [ctx |-> audioContextsRef, ok |-> c.ok, len |-> c.len, intr |-> intr,
                   clk |-> clock[audioContextsRef], stale |-> FALSE,
                   cut |-> cut, first |-> sessFresh, n |-> nMsgs + 1,
                   q |-> Len(pending), spk |-> isModelSpeaking])
  /\ sessFresh' = FALSE
  /\ last' = EvA("chunk", a)
  /\ UNCHANGED << pure, waveformData, ended, mounted, permissionState, errorMessage, isMuted, duration,
                  audioContextsRef, sessionRef, sourcesRef, timerRef, attemptSt, clock,
                  timers, playing, stopped, outbound, nSrc, schedObs, toggled >>

\* onmessage with the interrupted flag and no chunk, lines 143-148.
OnInterrupted(a) ==
  /\ chan[a] = "open"
  /\ nMsgs < MaxMsgs
  /\ nMsgs' = nMsgs + 1
  /\ Flush(sourcesRef)
  /\ pending' = [i \in DOMAIN pending |-> [pending[i] EXCEPT !.stale = TRUE]]
  /\ last' = EvA("interrupted", a)
  /\ UNCHANGED << pure, waveformData, ended, mounted, permissionState, errorMessage, isMuted, duration,
                  audioContextsRef, sessionRef, timerRef, attemptSt, clock, timers,
                  outbound, nSrc, sessFresh, toggled >>

\* The source node line 131 creates for the chunk h when the cursor is cur.
NewSource(h, cur) ==
  [id |-> nSrc + 1, ctx |-> h.ctx, start |-> StartTime(cur), len |-> h.len,
   endAt |-> Max(StartTime(cur), clock[h.ctx]) + h.len]

\* The latest of the suspended handlers resumed first.
ResumeLatest == Len(pending)

\* The promises awaited at line 130 are settled when awaited (decodeAudioData,
\* lines 34-43, awaits nothing), so the suspended handlers resume in the order
\* they were suspended: the first of the queue is next.
ResumeIndex == 1

\* The queue q without its i-th element.
Without(q, i) == [j \in 1..(Len(q) - 1) |-> IF j < i THEN q[j] ELSE q[j + 1]]

\* Math.random() of line 141, in hundredths: the ends of [0, 1).
RandomDraws == {0, 99}

\* Line 141 with the factor 100 for 80.
BarOfDrawWide(r) == r * 100 + Hundredths(20)

\* Line 141: Math.random() * 80 + 20.
BarOfDraw(r) == r * 80 + Hundredths(20)

\* decodeAudioData settles and the next suspended handler goes on: lines
\* 130-148.  A rejection ends the handler there.  Line 141 draws every bar
\* anew; the bars of one update share the draw r here.
DecodeDone(r) ==
  /\ pending # << >>
  /\ LET h == pending[ResumeIndex]
         rest == Without(pending, ResumeIndex)
         src == NewSource(h, nextStartTimeRef)
         entry == [start |-> src.start, len |-> h.len, clk |-> h.clk, stale |-> h.stale,
                   cut |-> h.cut, first |-> h.first, n |-> h.n, q |-> h.q,
                   now |-> clock[h.ctx]]
     IN
     /\ pending' = IF h.ok /\ h.intr
                   THEN [i \in DOMAIN rest |-> [rest[i] EXCEPT !.stale = TRUE]]
                   ELSE rest
     /\ IF ~h.ok
        THEN /\ last' = Ev("decodeFailed")
             /\ UNCHANGED << isModelSpeaking, sourcesRef, nextStartTimeRef, playing,
                             stopped, nSrc, schedObs, waveformData >>
        ELSE /\ nSrc' = nSrc + 1
             /\ waveformData' = [i \in 1..WaveLen |-> BarOfDraw(r)]
             /\ IF h.intr
                THEN /\ Flush(sourcesRef \cup {src})
                     /\ last' = Ev("decodedInterrupted")
                ELSE /\ sourcesRef' = sourcesRef \cup {src}
                     /\ playing' = IF outCtx[h.ctx] = "running"
                                   THEN playing \cup {src.id} ELSE playing
                     /\ nextStartTimeRef' = CursorAfterStart(nextStartTimeRef, h.len)
                     /\ log' = Append(log, entry)
                     /\ last' = Ev("decoded")
                     /\ UNCHANGED << isModelSpeaking, stopped, cut >>
  /\ UNCHANGED << pure, ended, mounted, permissionState, errorMessage, isMuted, duration,
                  audioContextsRef, sessionRef, timerRef, attemptSt, clock, timers,
                  outbound, nMsgs, sessFresh, toggled >>

\* The 'ended' listener of lines 134-137 for the node s.
EndedListener(s) ==
  /\ sourcesRef' = {r \in sourcesRef : r.id # s}
  /\ isModelSpeaking' = IF {r \in sourcesRef : r.id # s} = {}
                        THEN SetState(isModelSpeaking, FALSE) ELSE isModelSpeaking
  /\ playing' = playing \ {s}
  /\ stopped' = stopped \ {s}
  /\ last' = Ev("ended")
  /\ UNCHANGED << pure, waveformData, ended, mounted, permissionState, errorMessage, isMuted, duration,
                  audioContextsRef, sessionRef, nextStartTimeRef, timerRef, attemptSt,
                  clock, timers, pending, outbound, nMsgs, nSrc, schedObs, sessFresh,
                  toggled >>

\* A scheduled node plays to its end on a running context.
SourceEnded(s) ==
  /\ s \in playing
  /\ \E r \in sourcesRef :
       r.id = s /\ outCtx[r.ctx] = "running" /\ clock[r.ctx] >= r.endAt
  /\ EndedListener(s)

\* The 'ended' event of a node that stop() silenced.
StoppedEnded(s) ==
  /\ s \in stopped
  /\ EndedListener(s)

\* The audio thread advances the clocks of the running output contexts, all at
\* the same rate; the bound is on the clock the scheduler reads.
Tick ==
  /\ audioContextsRef # 0
  /\ outCtx[audioContextsRef] = "running"
  /\ clock[audioContextsRef] < MaxClock
  /\ clock' = [a \in Attempts |-> IF outCtx[a] = "running" THEN clock[a] + 1 ELSE clock[a]]
  /\ last' = Ev("clock")
  /\ UNCHANGED << pure, waveformData, ended, mounted, reactState, refs, attemptSt, timers, audioSt, outbound,
                  nMsgs, nSrc, schedObs, sessFresh, toggled >>

SourceIds == 1..MaxMsgs

\* ------------------------------------------------------------ specification
\* A start that succeeds, and the ways the call ends.
CallH ==
  \/ StartCall
  \/ \E a \in Attempts : MicGranted(a)
  \/ \E a \in Attempts : ContextsResumed(a)
  \/ \E a \in Attempts : OnOpen(a)
  \/ \E a \in Attempts : SessionResolved(a)
  \/ \E a \in Attempts : OnClose(a)
  \/ HangUp

\* The device and transport failures.
FailureH ==
  \/ \E a \in Attempts : MicDenied(a)
  \/ \E a \in Attempts : StartupFailed(a)
  \/ \E a \in Attempts : OnError(a)

\* The inbound messages and the 'ended' events of the source nodes.
PlaybackH ==
  \/ \E a \in Attempts, c \in Chunks, intr \in BOOLEAN : OnChunk(a, c, intr)
  \/ \E a \in Attempts : OnInterrupted(a)
  \/ \E s \in SourceIds : SourceEnded(s)
  \/ \E s \in SourceIds : StoppedEnded(s)

\* The call with its outbound side: start, failure and retry, mute button,
\* capture callbacks, duration timer; the remote sends no audio.
Next ==
  \/ CallH
  \/ FailureH
  \/ ToggleMute
  \/ \E a \in Attempts : CaptureFire(a)
  \/ \E t \in Attempts : TimerTick(t)

Spec == Init /\ [][Next]_vars

\* decodeAudioData (lines 34-43) awaits nothing, so the promise line 130 awaits
\* is settled and the rest of the handler is a microtask: the event loop
\* dispatches no other handler before it.  Only the audio thread moves meanwhile.
EventLoopIdle == pending = << >>

\* The handlers the event loop dispatches only when no onmessage is suspended.
IdleStartH ==
  \/ EventLoopIdle /\ StartCall
  \/ \E a \in Attempts : EventLoopIdle /\ MicGranted(a)
  \/ \E a \in Attempts : EventLoopIdle /\ ContextsResumed(a)
  \/ \E a \in Attempts : EventLoopIdle /\ OnOpen(a)
  \/ \E a \in Attempts : EventLoopIdle /\ SessionResolved(a)

IdleEndH ==
  \/ \E a \in Attempts : EventLoopIdle /\ OnClose(a)
  \/ EventLoopIdle /\ HangUp

IdleFailureH ==
  \/ \E a \in Attempts : EventLoopIdle /\ MicDenied(a)
  \/ \E a \in Attempts : EventLoopIdle /\ StartupFailed(a)
  \/ \E a \in Attempts : EventLoopIdle /\ OnError(a)

IdlePlaybackH ==
  \/ \E a \in Attempts, c \in Chunks, intr \in BOOLEAN : EventLoopIdle /\ OnChunk(a, c, intr)
  \/ \E a \in Attempts : EventLoopIdle /\ OnInterrupted(a)
  \/ \E s \in SourceIds : EventLoopIdle /\ SourceEnded(s)
  \/ \E s \in SourceIds : EventLoopIdle /\ StoppedEnded(s)

\* A call without failures, with its inbound side.
NextPlayback ==
  \/ \E r \in RandomDraws : DecodeDone(r)
  \/ Tick
  \/ IdleStartH
  \/ IdleEndH
  \/ IdlePlaybackH
  \/ EventLoopIdle /\ ToggleMute
  \/ \E t \in Attempts : EventLoopIdle /\ TimerTick(t)

SpecPlayback == Init /\ [][NextPlayback]_vars

\* The inbound side across failure and retry, the component staying mounted.
NextRetry ==
  \/ \E r \in RandomDraws : DecodeDone(r)
  \/ Tick
  \/ IdleStartH
  \/ IdleFailureH
  \/ IdlePlaybackH

SpecRetry == Init /\ [][NextRetry]_vars

\* The inbound side of a call without failures under a channel that delivers a
\* message while an earlier onmessage is still suspended at line 130.
NextAsync ==
  \/ \E r \in RandomDraws : DecodeDone(r)
  \/ Tick
  \/ CallH
  \/ PlaybackH

SpecAsync == Init /\ [][NextAsync]_vars

\* The waveform of a call without failures that the user does not end: the
\* inbound side and the idle decay.
NextWave ==
  \/ \E r \in RandomDraws : DecodeDone(r)
  \/ Tick
  \/ IdleStartH
  \/ IdlePlaybackH
  \/ EventLoopIdle /\ IdleDecay

SpecWave == Init /\ [][NextWave]_vars

\* ------------------------------------------------------ the base64 codec
\* encode (lines 19-24) and decode (lines 26-32) on their own.  A byte
\* array is a sequence of numbers 0..255, a string a sequence of UTF-16 code
\* units, a base64 text a sequence of the digits 0..63 and the padding sign.
MaxBytes == 4
ByteValues == {0, 65, 128, 255}

RECURSIVE SeqsUpTo(_, _)
SeqsUpTo(S, n) ==
  IF n = 0 THEN {<< >>}
  ELSE LET shorter == SeqsUpTo(S, n - 1)
       IN  shorter \cup {Append(q, x) : q \in {t \in shorter : Len(t) = n - 1}, x \in S}

\* The '=' of the base64 alphabet, after its 64 digits.
PadSign == 64

\* String.fromCharCode, line 22: the code unit of a number.
FromCharCode(n) == n % 65536

\* bytes[i] = ..., line 30, into an Int8Array: the low 8 bits, signed.
StoreSignedByte(c) == IF c % 256 >= 128 THEN (c % 256) - 256 ELSE c % 256

\* bytes[i] = ..., line 30: a Uint8Array element keeps the low 8 bits.
StoreByte(c) == c % 256

\* btoa, line 23: three characters make four digits; one or two left over
\* make two or three digits and padding.
RECURSIVE Btoa(_)
Btoa(b) ==
  IF Len(b) = 0 THEN << >>
  ELSE IF Len(b) = 1
       THEN << b[1] \div 4, (b[1] % 4) * 16, PadSign, PadSign >>
  ELSE IF Len(b) = 2
       THEN << b[1] \div 4, (b[1] % 4) * 16 + b[2] \div 16, (b[2] % 16) * 4, PadSign >>
  ELSE << b[1] \div 4, (b[1] % 4) * 16 + b[2] \div 16,
          (b[2] % 16) * 4 + b[3] \div 64, b[3] % 64 >>
         \o Btoa(SubSeq(b, 4, Len(b)))

\* atob, line 27: four digits make three characters, fewer before padding.
RECURSIVE Atob(_)
Atob(t) ==
  IF Len(t) < 4 THEN << >>
  ELSE LET c1 == t[1] * 4 + t[2] \div 16
           c2 == (t[2] % 16) * 16 + t[3] \div 4
           c3 == (t[3] % 4) * 64 + t[4]
           rest == Atob(SubSeq(t, 5, Len(t)))
       IN  IF t[3] = PadSign THEN << c1 >>
           ELSE IF t[4] = PadSign THEN << c1, c2 >>
           ELSE << c1, c2, c3 >> \o rest

\* encode, lines 19-24.
encode(bytes) == Btoa([i \in 1..Len(bytes) |-> FromCharCode(bytes[i])])

\* decode, lines 26-32.
decode(base64) ==
  LET binaryString == Atob(base64)
  IN  [i \in 1..Len(binaryString) |-> StoreByte(binaryString[i])]

\* The rest of the component stands still while a helper is studied.
componentVars == << mounted, reactState, waveformData, refs, attemptSt, clock, timers,
                    audioSt, outbound, nMsgs, nSrc, schedObs, sessFresh, ended, toggled,
                    last >>

InitCodec ==
  /\ ComponentInit
  /\ \E x \in SeqsUpTo(ByteValues, MaxBytes) :
       pure = [fn |-> "codec", at |-> "input", x |-> x, y |-> << >>]

Encode ==
  /\ pure.fn = "codec"
  /\ pure.at = "input"
  /\ pure' = [pure EXCEPT !.at = "encoded", !.y = encode(pure.x)]
  /\ UNCHANGED componentVars

Decode ==
  /\ pure.fn = "codec"
  /\ pure.at = "encoded"
  /\ pure' = [pure EXCEPT !.at = "decoded", !.y = decode(pure.y)]
  /\ UNCHANGED componentVars

NextCodec ==
  \/ Encode
  \/ Decode

SpecCodec == InitCodec /\ [][NextCodec]_vars

\* ------------------------------------------------- float samples to int16
\* Line 116 on its own: int16[i] = inputData[i] * 32768.  A float sample is a
\* number of half steps, k / (2 * Scale), so that products with a fraction
\* of one half occur; samples lie around 0, -1, 1, -2 and 2.
MaxOff == 5
Scale == 32768
SampleHalfSteps ==
  {c * Scale + d : c \in {-4, -2, 0, 2, 4}, d \in (0 - MaxOff)..MaxOff}

\* The product of line 116 for a sample of k half steps, cut to an integer
\* as the typed-array store does: toward zero.
Truncated(k) == IF k >= 0 THEN k \div 2 ELSE 0 - ((0 - k) \div 2)

\* The Int16Array store of line 116: modulo 2^16 into [-2^15, 2^15).
ToInt16(n) ==
  LET m == n % (2 * Scale) IN IF m >= Scale THEN m - 2 * Scale ELSE m

InitPcm ==
  /\ ComponentInit
  /\ \E k \in SampleHalfSteps : pure = [fn |-> "pcm", at |-> "input", x |-> k, y |-> 0]

StoreSample ==
  /\ pure.fn = "pcm"
  /\ pure.at = "input"
  /\ pure' = [pure EXCEPT !.at = "stored", !.y = ToInt16(Truncated(pure.x))]
  /\ UNCHANGED componentVars

SpecPcm == InitPcm /\ [][StoreSample]_vars

\* ------------------------------------------------------------------ claims
FlushOps == {"interrupted", "decodedInterrupted"}

\* C1.  Mute correctness: no frame of a capture callback that fired while the
\* mute flag was true is handed to sendRealtimeInput, for every interleaving of
\* mute toggles and capture callbacks, calls started by retry included.
\* Checked under Spec.
C1_MuteCorrectness == \A i \in DOMAIN delivered : ~delivered[i].muted

\* C2.  A change of the mute flag takes effect at the next frame: the first
\* capture callback after muting drops its frame (it neither sends it nor
\* queues it on the session promise), and the first capture callback after
\* unmuting hands its frame over.  Checked under Spec.
C2_MuteNextFrame ==
  [][(last'.op = "capture" /\ toggled)
       => IF isMuted
          THEN delivered' = delivered /\ thenQ' = thenQ
          ELSE delivered' # delivered \/ thenQ' # thenQ]_vars

\* The scheduled end of the i-th chunk of the log.
EndOf(i) == log[i].start + log[i].len

\* C3.  Scheduler ordering: of the chunks started with no flush between them,
\* each starts no earlier than the scheduled end of the one before it,
\* start(Ci) >= start(C(i-1)) + duration(C(i-1)), whenever they arrived.
\* Checked under SpecPlayback.
C3_SchedulerOrdering ==
  \A i \in DOMAIN log : i > 1 => log[i].start >= log[i - 1].start + log[i - 1].len

\* Three chunks in a run, one that arrived before the previous end and one
\* that arrived late enough to leave a gap.
C3_Witness ==
  /\ Len(log) = 3
  /\ \E i \in 2..3 : log[i].clk < EndOf(i - 1)
  /\ \E i \in 2..3 : log[i].start > EndOf(i - 1)

RECURSIVE SumLen(_)
SumLen(n) == IF n = 0 THEN 0 ELSE log[n].len + SumLen(n - 1)

\* Chunks 2..i of the log each arrived before the scheduled end of the previous one.
ArrivedEarly(i) == \A j \in 2..i : log[j].clk < EndOf(j - 1)

C7_NoStaleChunk == \A i \in DOMAIN log : ~log[i].stale

\* C8.  The cursor never decreases except at a flush, and every enqueue leaves
\* it no lower than it was and no lower than the output clock read at that
\* enqueue.  Checked under SpecPlayback.
C8_CursorMonotone ==
  [][/\ (nextStartTimeRef' >= nextStartTimeRef \/ last'.op \in FlushOps)
     /\ (last'.op = "chunk" => nextStartTimeRef' >= clock[audioContextsRef])
     /\ (last'.op = "decoded" => nextStartTimeRef' >= Head(pending).clk)]_vars

\* After a flush that discarded a positive cursor an enqueue raised it again.
C8_Witness ==
  /\ last.op = "decoded"
  /\ cut > 0
  /\ nextStartTimeRef > 0

\* C9.  The cursor is reset on (re)start: the first chunk an output context
\* receives is started at that context's current time, not at a cursor carried
\* over from an earlier session.  Checked under SpecRetry.
C9_CursorResetOnStart ==
  \A i \in DOMAIN log : log[i].first => log[i].start = log[i].clk

\* C10.  Hang-up from the Active state tears down everything held: no duration
\* timer runs, no channel is open or opening, no audio context runs and no
\* capture callback can fire.  Checked under Spec.
C10_HangUpTearsDown ==
  (last.op = "hangup" /\ permissionState = "granted")
    => /\ timers = {}
       /\ \A a \in Attempts : chan[a] \notin {"opening", "open"}
       /\ \A a \in Attempts : inCtx[a] # "running" /\ outCtx[a] # "running"
       /\ \A a \in Attempts : ~(capture[a] /\ inCtx[a] = "running")

\* The resources an attempt holds.
Holds(a) ==
  \/ a \in timers
  \/ chan[a] \in {"opening", "open"}
  \/ capture[a] /\ inCtx[a] = "running"
  \/ inCtx[a] = "running"
  \/ outCtx[a] = "running"

\* C11.  Cancellation during a pending await: after the user hangs up while
\* the permission request or the channel open is pending, the attempt that was
\* pending holds nothing, whenever its awaited operations complete: no open
\* channel, no timer, no capture pipeline, no open audio context.
\* Checked under Spec.
C11_CancelDuringAwait ==
  (ended = "hangup" /\ permissionState \in {"requesting", "connecting"}) => ~Holds(att)

C13_ErrorReleasesAll == SessionState = "Error" => \A a \in Attempts : ~Holds(a)

\* C14.  Teardown happens exactly once per acquired resource on every terminal
\* path: the step that ends the call (remote close or hang-up, after an error
\* or not) leaves no acquired resource held, and closes no context and clears
\* no timer that was already torn down.  Checked under Spec.
C14_TeardownExactlyOnce ==
  [][(mounted /\ ~mounted')
       => /\ \A a \in Attempts : ~Holds(a)'
          /\ audioContextsRef # 0
               => inCtx[audioContextsRef] = "running" /\ outCtx[audioContextsRef] = "running"
          /\ timerRef # 0 => timerRef \in timers]_vars

\* C15.  When the remote closes the channel of an active call the session goes
\* to Idle and the caller's onClose is invoked: no capture pipeline delivers
\* frames, no output context is open and no duration timer runs.
\* Checked under Spec.
C15_RemoteCloseToIdle ==
  [][(last'.op = "close" /\ SessionState = "Active")
       => /\ SessionState' = "Idle"
          /\ ended' = "remote"
          /\ timers' = {}
          /\ \A a \in Attempts : ~(capture'[a] /\ inCtx'[a] = "running")
          /\ \A a \in Attempts : outCtx'[a] # "running"]_vars

\* C16.  The session state changes only by the defined transitions: Connecting
\* is entered only from RequestingPermission when the microphone is granted,
\* Active only from Connecting when the channel opens, and a start is taken
\* only from Idle, Denied or Error and enters RequestingPermission.
\* Checked under Spec.
C16_DefinedTransitions ==
  [][/\ (SessionState' = "Connecting" /\ SessionState # "Connecting")
          => SessionState = "RequestingPermission" /\ last'.op = "granted"
     /\ (SessionState' = "Active" /\ SessionState # "Active")
          => SessionState = "Connecting" /\ last'.op = "open"
     /\ last'.op = "start"
          => SessionState \in {"Idle", "Denied", "Error"}
             /\ SessionState' = "RequestingPermission"]_vars

\* A retry from Error that reached Active again.
C16_Witness ==
  /\ att = 2
  /\ last.op = "open"
  /\ last.a = 2
  /\ SessionState = "Active"

\* C17.  A denied permission request enters Denied and allocates nothing: the
\* attempt has no stream, no audio context, no channel, no timer and no capture
\* pipeline, and the step changes no resource.  Checked under Spec.
C17_DeniedAllocatesNothing ==
  [][\A a \in Attempts :
       last' = EvA("denied", a)
         => /\ mounted => SessionState' = "Denied"
            /\ ~stream'[a] /\ ~Holds(a)'
            /\ inCtx'[a] = "none" /\ outCtx'[a] = "none" /\ chan'[a] = "none"
            /\ UNCHANGED << stream, inCtx, outCtx, chan, timers, capture >>]_vars

\* The request of a retry was denied while the component is mounted.
C17_Witness ==
  /\ last = EvA("denied", 2)
  /\ SessionState = "Denied"
  /\ errorMessage # ""

\* C18.  Denied is left only by a user action: a step that takes the session
\* out of Denied is a user retry or a user hang-up.  Checked under Spec.
C18_DeniedLeftByUserOnly ==
  [][(SessionState = "Denied" /\ SessionState' # "Denied")
       => last'.op \in {"start", "hangup"}]_vars

\* C19.  Ending the call from Idle is a no-op: the state stays Idle, nothing is
\* torn down, and duration, mute flag and scheduler state are unchanged.
\* Checked under Spec.
C19_EndCallFromIdle ==
  [][(last'.op = "hangup" /\ SessionState = "Idle")
       => /\ SessionState' = "Idle"
          /\ UNCHANGED << stream, inCtx, outCtx, chan, timers, capture, playing, stopped >>
          /\ UNCHANGED << duration, isMuted, sourcesRef, nextStartTimeRef, refs >>]_vars

\* The user left the screen before any call was started.
C19_Witness ==
  /\ last.op = "hangup"
  /\ permissionState = "pending"
  /\ att = 0

\* C20.  At most one capture pipeline and at most one output context are
\* active at any time, over every sequence of start, error, retry and hang-up.
\* Checked under Spec.
C20_SinglePipeline ==
  /\ Cardinality({a \in Attempts : capture[a] /\ inCtx[a] = "running"}) <= 1
  /\ Cardinality({a \in Attempts : outCtx[a] = "running"}) <= 1

\* C21.  Call metrics are reset on a new call: when a call becomes Active, a
\* retry after Error or Denied included, the duration is 0 and the mute flag
\* is false.  Checked under Spec.
C21_MetricsResetOnStart ==
  (last.op = "open" /\ SessionState = "Active") => duration = 0 /\ ~isMuted

\* C22.  Teardown on hang-up runs in the reverse order of acquisition: the
\* capture side (the input context) is closed first, then playback (the output
\* context), and the channel is closed after both.  Checked under Spec.
C22_TeardownOrder ==
  [][last'.op = "hangup"
       => \A i, j \in DOMAIN CleanupSteps :
            /\ (CleanupSteps[i] = "input" /\ CleanupSteps[j] = "output") => i < j
            /\ (CleanupSteps[i] = "output" /\ CleanupSteps[j] = "channel") => i < j]_vars

\* The message numbers of the handlers in the queue q.
Ns(q) == {q[i].n : i \in DOMAIN q}

\* C23.  Inbound ordering: chunks are started in the order their messages were
\* received, also when their decodes overlap: the chunk a step starts was
\* received after every chunk started before it and before every chunk still
\* being decoded, and a well-formed chunk leaves the decode queue only by being
\* started or by the flush of its own message.  Checked under SpecAsync.
C23_InboundOrdering ==
  [][/\ last'.op = "decoded"
          => /\ \A k \in Ns(pending') : log'[Len(log')].n < k
             /\ \A i \in DOMAIN log : log[i].n < log'[Len(log')].n
     /\ \A i \in DOMAIN pending :
          (pending[i].ok /\ pending[i].n \notin Ns(pending'))
             => \/ last'.op = "decoded" /\ log'[Len(log')].n = pending[i].n
                \/ last'.op = "decodedInterrupted"]_vars

\* Two chunks started one after the other, the second received while the
\* handler of the first was still suspended.
C23_Witness ==
  \E i \in DOMAIN log :
    /\ i > 1
    /\ log[i].q >= 1
    /\ log[i - 1].n < log[i].n

\* C24.  The scheduler never schedules a chunk in the past: every chunk is
\* started at a time no earlier than the output clock at the moment
\* source.start is called.  Checked under SpecPlayback.
C24_NeverInThePast == \A i \in DOMAIN log : log[i].start >= log[i].now

\* C25.  A malformed chunk is skipped: when its decode fails the session state
\* is unchanged, the set of scheduled sources is unchanged and the
\* remote-speaking flag is what it was before the chunk arrived.
\* Checked under SpecPlayback.
C25_MalformedChunkSkipped ==
  [][last'.op = "decodeFailed"
       => /\ SessionState' = SessionState
          /\ sourcesRef' = sourcesRef
          /\ isModelSpeaking' = Head(pending).spk]_vars

\* C26.  The microphone stream obtained at the grant is released whenever the
\* call stops: once the component is unmounted (hang-up, remote close) or the
\* session is in Error, no attempt's stream is live.  Checked under Spec.
C26_MicrophoneReleased ==
  (~mounted \/ SessionState = "Error") => \A a \in Attempts : ~stream[a]

\* C27.  Agent finished speaking: once every received chunk has completed,
\* failed to decode or been flushed (no handler is suspended and the set of
\* scheduled sources is empty), the remote-speaking flag is false.
\* Checked under SpecPlayback.
C27_FinishedSpeaking ==
  (mounted /\ pending = << >> /\ sourcesRef = {}) => ~isModelSpeaking

\* C28.  Chunks are accepted only while the session is Active: no chunk is
\* started and added to the set of scheduled sources in any other state.
\* Checked under SpecPlayback.
C28_ChunksOnlyWhileActive == last.op = "decoded" => SessionState = "Active"

\* C29.  The waveform always has 40 bars and every bar is within [0, 100],
\* after any sequence of chunk updates and idle decay ticks.
\* Checked under SpecWave.
C29_WaveformShape ==
  /\ Len(waveformData) = 40
  /\ \A i \in DOMAIN waveformData :
       waveformData[i] >= 0 /\ waveformData[i] <= Hundredths(100)

\* Bars drawn by a chunk update have decayed below anything a draw gives.
C29_Witness ==
  /\ last.op = "decay"
  /\ waveformData[1] > Hundredths(DecayFloor)
  /\ waveformData[1] < Hundredths(20)
  /\ waveformData[1] # Hundredths(WaveFill)

\* C30.  Idle decay: a tick is applied only while the remote is not speaking
\* and replaces each bar v by max(4, 0.9 v): no bar increases, no bar is below
\* the floor after the tick and none is zero.  Checked under SpecWave.
C30_IdleDecay ==
  [][last'.op = "decay"
       => /\ ~isModelSpeaking
          /\ \A i \in DOMAIN waveformData :
               /\ waveformData'[i] = Max(Hundredths(4), (waveformData[i] * 9) \div 10)
               /\ waveformData'[i] <= waveformData[i]
               /\ waveformData'[i] >= Hundredths(4)
               /\ waveformData'[i] # 0]_vars

\* C31.  Codec round trip: for every byte sequence x, the empty one included,
\* decode(encode(x)) equals x.  Checked under SpecCodec.
C31_CodecRoundTrip ==
  (pure.fn = "codec" /\ pure.at = "decoded") => pure.y = pure.x

\* A sequence that needs padding and has a byte above 127 went both ways.
C31_Witness ==
  /\ pure.fn = "codec"
  /\ pure.at = "decoded"
  /\ Len(pure.x) = 2
  /\ pure.x[1] = 255
  /\ pure.y = pure.x

\* What C32 expects of a sample of k half steps: clamp to [-1, 1], scale,
\* round, limit to the int16 range.
Min(a, b) == IF a <= b THEN a ELSE b
ClampedPcm(k) ==
  LET clamped == Max(0 - 2 * Scale, Min(2 * Scale, k))
      rounded == (clamped + 1) \div 2
  IN  Max(0 - Scale, Min(Scale - 1, rounded))

\* C32.  float_to_pcm clamps instead of wrapping: the stored 16-bit value is
\* round(clamp(sample, -1, 1) * 32768) limited to the int16 range, so a
\* positive sample never gives a negative value and vice versa.
\* Checked under SpecPcm.
C32_ClampNotWrap ==
  (pure.fn = "pcm" /\ pure.at = "stored")
    => /\ pure.y = ClampedPcm(pure.x)
       /\ pure.x > 0 => pure.y >= 0
       /\ pure.x < 0 => pure.y <= 0

\* C33.  A remote close while the session is Connecting leads to Error with
\* the message 'Server connection rejected.' and does not invoke the caller's
\* onClose; only a close outside Connecting does.  Checked under Spec.
C33_CloseWhileConnecting ==
  [][\A a \in Attempts :
       (last' = EvA("close", a) /\ a = att /\ SessionState = "Connecting")
         => /\ SessionState' = "Error"
            /\ errorMessage' = "Server connection rejected."
            /\ mounted'
            /\ ended' = ended]_vars

\* C34.  At most one duration timer is running at any time and timerRef
\* refers to it, so that teardown clears every running timer.
\* Checked under Spec.
C34_SingleTimer ==
  /\ Cardinality(timers) <= 1
  /\ timers # {} => timers = {timerRef}

\* C35.  Callbacks of a superseded attempt never affect the current one:
\* after a retry, an onopen, onmessage, onclose or onerror of the earlier
\* channel changes neither the session state, the scheduler, the timer nor
\* the view.  Checked under Spec.
C35_SupersededCallbacks ==
  [][\A a \in Attempts :
       (/\ last'.a = a
        /\ last'.op \in {"open", "chunk", "interrupted", "close", "error"}
        /\ a < att)
         => UNCHANGED << mounted, permissionState, errorMessage, isModelSpeaking,
                         waveformData, sourcesRef, nextStartTimeRef, timerRef,
                         timers >>]_vars

\* C36.  Outbound frames are sent only while the session is Active: none is
\* handed to the transport before remote-ready and none after the session
\* has left Active for Error or Idle.  Checked under Spec.
C36_SendOnlyWhileActive ==
  [][Len(delivered') > Len(delivered) => SessionState = "Active"]_vars

\* C37.  Whenever the scheduler's active set is non-empty the remote-speaking
\* flag is true, in every reachable state, also after an interruption that
\* overlaps a decode in flight.  Checked under SpecAsync.
C37_SpeakingWhileActive ==
  (mounted /\ sourcesRef # {}) => isModelSpeaking

\* The attempt a has begun and has not ended in Active (onopen), Denied or
\* Error (catch, onerror, onclose).
InFlight(a) == pc[a] \in {"mic", "resume", "connect"} /\ chan[a] \in {"none", "opening"}

C39_CaptureOrder ==
  \A i, j \in DOMAIN delivered : i < j => delivered[i].n < delivered[j].n

=============================================================================
